---- MODULE Spec2Model ----
(***************************************************************************)
(* The LLM Council workflow of backend/graph.py: three graph nodes         *)
(* (stage1_node, stage2_node, stage3_node) run in sequence over a          *)
(* CouncilState; stage 1 and stage 2 each dispatch one batch of concurrent *)
(* model invocations and join on it, stage 3 invokes the chairman once.    *)
(*                                                                         *)
(* Python values are modelled as follows.                                  *)
(*   text            a sequence of lines (strings); '' is << >>            *)
(*   dict            a function whose domain is the set of its keys        *)
(*   list            a sequence                                            *)
(*   response        a record: None, or a dict with or without 'content'   *)
(* backend/openrouter.py (query_model, query_models_parallel) and          *)
(* backend/utils.py (parse_ranking_from_text, calculate_aggregate_rankings)*)
(* are not part of the sources at hand; they are modelled from the         *)
(* design document (sections 4.1, 4.4, 4.5).                               *)
(* The aggregator's scoring policy, left open by section 4.5, is fixed     *)
(* here: a label's score is the sum of its positions over the parseable    *)
(* rankings, and a ranking that leaves a label out scores it one past the  *)
(* number of labels.                                                       *)
(*                                                                         *)
(* Spec is the whole workflow from its entry point.  RankingsSpec starts   *)
(* where stage2_node's batch has joined, over a wider set of ranking       *)
(* texts, and runs the node to its return.                                 *)
(***************************************************************************)
EXTENDS Integers, Sequences, FiniteSets, TLC

\* ---------------------------------------------------------------- bounds

\* Largest council the model configures (the shipped configuration has 4).
MaxCouncil == 3

\* ------------------------------------------------------- configuration

\* The i-th model identifier of the configuration.
ModelId(i) == "M" \o ToString(i)

\* config.COUNCIL_MODELS for a council of n members: an ordered list of
\* distinct identifiers.
COUNCIL_MODELS(n) == [i \in 1..n |-> ModelId(i)]

\* config.CHAIRMAN_MODEL: the first council member.
CHAIRMAN_MODEL == ModelId(1)

\* The user queries the model runs the workflow on.
Queries == {"Q"}

\* ------------------------------------------------------------- values

\* Elements of a sequence, as a set.
Range(s) == {s[i] : i \in 1..Len(s)}

\* A list comprehension's result as a list value: every element is computed
\* once, when the list is built.
List(f) == f \o << >>

\* Body(value), with the value computed once and then bound, as an assignment
\* to a local does.
Let(value, Body(_)) == CHOOSE result \in {Body(v) : v \in {value}} : TRUE

\* The model invoker's results: None (failure), or a dict that may lack the
\* 'content' key.
None == [is_none |-> TRUE, has_content |-> FALSE, content |-> << >>]
Dict(text) == [is_none |-> FALSE, has_content |-> TRUE, content |-> text]
EmptyDict == [is_none |-> FALSE, has_content |-> FALSE, content |-> << >>]

\* response.get('content', '')
GetContent(response) == IF response.has_content THEN response.content ELSE << >>

\* What model m answers to the user query when it answers.
Answer(m) == <<"answer of " \o m>>

\* The texts a model may answer to the ranking prompt.
RankingTexts ==
  { <<"no marker here">>,
    <<"commentary", "FINAL RANKING:", "1. Response B", "2. Response A">> }

\* What the chairman answers when it answers.
FinalAnswer == <<"final answer">>

\* The outcomes of one invocation, by the node that issued it.
Outcomes(stage, m) ==
  CASE stage = "stage1" -> {None, Dict(Answer(m))}
    [] stage = "stage2" -> {None} \cup {Dict(t) : t \in RankingTexts}
    [] OTHER -> {None, EmptyDict, Dict(FinalAnswer)}

\* chr(65 + i)
Alphabet ==
  <<"A", "B", "C", "D", "E", "F", "G", "H", "I", "J", "K", "L", "M",
    "N", "O", "P", "Q", "R", "S", "T", "U", "V", "W", "X", "Y", "Z">>
Chr65(i) == Alphabet[i + 1]

\* f"Response {label}"
FormatLabel(label) == "Response " \o label

\* ------------------------------------------------------ ranking parser

\* The ordinals a ranking line may carry.
Ordinals == 1..9

\* The lines of the form "<ordinal>. Response <Letter>", with their letter.
RankLineTable ==
  { [line |-> ToString(o) \o ". " \o FormatLabel(Alphabet[k]), letter |-> Alphabet[k]] :
      o \in Ordinals, k \in 1..Len(Alphabet) }

IsRankLine(line) == \E e \in RankLineTable : e.line = line

LetterOfLine(line) == (CHOOSE e \in RankLineTable : e.line = line).letter

\* Index of the last line holding the marker, 0 if none.
MarkerIndexLast(text) ==
  IF \E i \in 1..Len(text) : text[i] = "FINAL RANKING:"
    THEN CHOOSE i \in 1..Len(text) :
           /\ text[i] = "FINAL RANKING:"
           /\ \A j \in (i + 1)..Len(text) : text[j] # "FINAL RANKING:"
    ELSE 0

\* Index of the first line holding the marker "FINAL RANKING:", 0 if none.
MarkerIndex(text) ==
  IF \E i \in 1..Len(text) : text[i] = "FINAL RANKING:"
    THEN CHOOSE i \in 1..Len(text) :
           /\ text[i] = "FINAL RANKING:"
           /\ \A j \in 1..(i - 1) : text[j] # "FINAL RANKING:"
    ELSE 0

\* The letters of the matching lines, in document order.
ExtractLetters(lines) ==
  LET matching == SelectSeq(lines, IsRankLine)
  IN  List([k \in 1..Len(matching) |-> LetterOfLine(matching[k])])

\* utils.parse_ranking_from_text
parse_ranking_from_text(text) ==
  LET i == MarkerIndex(text)
  IN  IF i = 0 THEN << >> ELSE ExtractLetters(SubSeq(text, i + 1, Len(text)))

\* ----------------------------------------------------- rank aggregator

\* The formatted label of every letter.
LabelTable == {[letter |-> Alphabet[k], key |-> FormatLabel(Alphabet[k])] : k \in 1..Len(Alphabet)}

\* The parser's letter is looked up in the label map as it is.
KeyOfLetterRaw(letter) == letter

\* The key under which the label map holds the letter's model.
KeyOfLetter(letter) == (CHOOSE e \in LabelTable : e.letter = letter).key

\* The letters that have an entry in the label map, in label order.
MappedLetters(label_to_model) ==
  SelectSeq(Alphabet, LAMBDA l : KeyOfLetter(l) \in DOMAIN label_to_model)

\* Position (1 = best) of the letter in one parsed ranking; a letter the
\* ranking leaves out gets the worst-case score, one past the last label.
PositionScore(parsed, letter, nlabels) ==
  IF \E i \in 1..Len(parsed) : parsed[i] = letter
    THEN CHOOSE i \in 1..Len(parsed) :
           /\ parsed[i] = letter
           /\ \A j \in 1..(i - 1) : parsed[j] # letter
    ELSE nlabels + 1

\* Only the ranking that arrived first counts.
SumScoresFirstOnly(rankings, letter, nlabels) ==
  IF rankings = << >> THEN 0
  ELSE PositionScore(rankings[1].parsed_ranking, letter, nlabels)

\* Sum of the letter's scores over the rankings.
SumScores(rankings, letter, nlabels) ==
  LET sum[k \in 0..Len(rankings)] ==
        IF k = 0 THEN 0
        ELSE sum[k - 1] + PositionScore(rankings[k].parsed_ranking, letter, nlabels)
  IN  sum[Len(rankings)]

\* The entries by ascending score; of two entries of equal score the later
\* comes first.
SortByScoreLaterFirst(entries) ==
  LET before(j, i) ==
        \/ entries[j].score < entries[i].score
        \/ entries[j].score = entries[i].score /\ j > i
      place(i) == Cardinality({j \in 1..Len(entries) : before(j, i)}) + 1
  IN  List([p \in 1..Len(entries) |->
              entries[CHOOSE i \in 1..Len(entries) : place(i) = p]])

\* The entries by ascending score; entries of equal score keep their order.
SortByScore(entries) ==
  LET before(j, i) ==
        \/ entries[j].score < entries[i].score
        \/ entries[j].score = entries[i].score /\ j < i
      place(i) == Cardinality({j \in 1..Len(entries) : before(j, i)}) + 1
  IN  List([p \in 1..Len(entries) |->
              entries[CHOOSE i \in 1..Len(entries) : place(i) = p]])

\* Only the labels some ranking mentions get an entry.
AggregateMentionedOnly(stage2_results, label_to_model) ==
  Let(SelectSeq(stage2_results, LAMBDA r : r.parsed_ranking # << >>), LAMBDA parseable :
  Let(SelectSeq(MappedLetters(label_to_model),
                LAMBDA l : \E k \in 1..Len(parseable) : l \in Range(parseable[k].parsed_ranking)),
      LAMBDA letters :
  Let(List([i \in 1..Len(letters) |->
              [model |-> label_to_model[KeyOfLetter(letters[i])],
               score |-> SumScores(parseable, letters[i], Len(letters))]]), LAMBDA entries :
    IF parseable = << >> THEN << >> ELSE SortByScore(entries))))

\* utils.calculate_aggregate_rankings
calculate_aggregate_rankings(stage2_results, label_to_model) ==
  Let(SelectSeq(stage2_results, LAMBDA r : r.parsed_ranking # << >>), LAMBDA parseable :
  Let(MappedLetters(label_to_model), LAMBDA letters :
  Let(List([i \in 1..Len(letters) |->
              [model |-> label_to_model[KeyOfLetter(letters[i])],
               score |-> SumScores(parseable, letters[i], Len(letters))]]), LAMBDA entries :
    IF parseable = << >> THEN << >> ELSE SortByScore(entries))))

\* ------------------------------------------------------------- state

VARIABLES
  council,      \* COUNCIL_MODELS of the configuration the run uses
  node,         \* the graph node the workflow is at: stage1, stage2, stage3, END
  phase,        \* ready: the node has not started; awaiting: it is suspended in its await
  state,        \* the CouncilState: a dict, keys written so far
  pending,      \* models of the current batch whose invocation has not resolved
  responses,    \* the current batch's results, <<model, response>> in completion order
  label_to_model, \* stage2_node's local label_to_model, kept across its await
  invocations,  \* every invocation issued so far: node, model, messages
  resolved,     \* every invocation resolved so far: node, model, response
  events        \* every node start and node return so far, in order

vars == <<council, node, phase, state, pending, responses, label_to_model,
          invocations, resolved, events>>

\* A dict with no key: {}.
EmptyDictionary == [k \in {} |-> k]

\* The prompt texts: the template with what it embeds.
Prompt(template, question, responses_text, stage1_text, stage2_text) ==
  [template |-> template, question |-> question, responses_text |-> responses_text,
   stage1_text |-> stage1_text, stage2_text |-> stage2_text]

\* [{"role": "user", "content": content}]
Messages(content) == <<[role |-> "user", content |-> content]>>

\* ---------------------------------------------------- workflow driver

\* workflow.set_entry_point
EntryPoint == "stage1"

\* A retry edge: stage 2 leads back to stage 1 instead of on to stage 3.
EdgeRetry(from) ==
  CASE from = "stage1" -> "stage2"
    [] from = "stage2" -> "stage1"
    [] from = "stage3" -> "END"

\* workflow.add_edge
Edge(from) ==
  CASE from = "stage1" -> "stage2"
    [] from = "stage2" -> "stage3"
    [] from = "stage3" -> "END"

\* The driver merges a node's partial update into the state: every key of
\* the update replaces the state's value for it, the other keys are kept.
Merge(old, update) ==
  Let(update, LAMBDA u :
    [k \in DOMAIN old \cup DOMAIN u |-> IF k \in DOMAIN u THEN u[k] ELSE old[k]])

\* ------------------------------------------------ parallel dispatcher

\* One invocation per model, all started together.
Dispatched(stage, models, messages) ==
  [i \in 1..Len(models) |-> [stage |-> stage, model |-> models[i], messages |-> messages]]

\* The await on a batch returns once every invocation of it has resolved.
Joined == pending = {}

\* ------------------------------------------------------------ stage 1

\* for model, response in responses.items(): if response is not None
NotNone(resp) == SelectSeq(resp, LAMBDA item : ~item[2].is_none)

\* The loop leaves at the first None instead of skipping it.
Stage1ResultsBreak(resp) ==
  LET stop == IF \E i \in 1..Len(resp) : resp[i][2].is_none
                THEN CHOOSE i \in 1..Len(resp) :
                       /\ resp[i][2].is_none
                       /\ \A j \in 1..(i - 1) : ~resp[j][2].is_none
                ELSE Len(resp) + 1
  IN  List([i \in 1..(stop - 1) |->
              [model |-> resp[i][1], response |-> GetContent(resp[i][2])]])

\* graph.py lines 28-34: one result per response that is not None, in the
\* order of the mapping.
Stage1Results(resp) ==
  LET answered == NotNone(resp)
  IN  List([i \in 1..Len(answered) |->
              [model |-> answered[i][1], response |-> GetContent(answered[i][2])]])

\* The node also returns the query, rewritten.
Stage1UpdateRewritesQuery(resp) ==
  [stage1_results |-> Stage1Results(resp), user_query |-> "q"]

\* return {"stage1_results": stage1_results}
Stage1Update(resp) == [stage1_results |-> Stage1Results(resp)]

\* ------------------------------------------------------------ stage 2

\* The node has no early return.
Stage2InputNeverAbsent(s) == FALSE

\* if not stage1_results (stage2_node)
Stage2InputAbsent(s) == s.stage1_results = << >>

\* The early return leaves metadata empty.
Stage2SkipUpdateNoMarker ==
  [stage2_results |-> << >>,
   label_to_model |-> EmptyDictionary,
   metadata |-> EmptyDictionary]

\* The update stage2_node returns when it has no input.
Stage2SkipUpdate ==
  [stage2_results |-> << >>,
   label_to_model |-> EmptyDictionary,
   metadata |-> [error |-> "No stage 1 results"]]

\* One label too few: range(len(stage1_results) - 1).
LabelsShort(stage1_results) == [i \in 1..(Len(stage1_results) - 1) |-> Chr65(i - 1)]

\* labels = [chr(65 + i) for i in range(len(stage1_results))]
Labels(stage1_results) == [i \in 1..Len(stage1_results) |-> Chr65(i - 1)]

\* Every label is given the model of the first result.
LabelToModelFirst(labels, stage1_results) ==
  LET n == IF Len(labels) < Len(stage1_results) THEN Len(labels) ELSE Len(stage1_results)
  IN  [key \in {FormatLabel(labels[i]) : i \in 1..n} |-> stage1_results[1].model]

\* The dict comprehension over zip(labels, stage1_results): a later pair
\* with the same key replaces an earlier one.
LabelToModel(labels, stage1_results) ==
  LET n == IF Len(labels) < Len(stage1_results) THEN Len(labels) ELSE Len(stage1_results)
      last(key) == CHOOSE i \in 1..n :
                     /\ FormatLabel(labels[i]) = key
                     /\ \A j \in (i + 1)..n : FormatLabel(labels[j]) # key
  IN  [key \in {FormatLabel(labels[i]) : i \in 1..n} |-> stage1_results[last(key)].model]

\* responses_text: one "Response <label>:" block per stage 1 result.
ResponsesText(labels, stage1_results) ==
  LET n == IF Len(labels) < Len(stage1_results) THEN Len(labels) ELSE Len(stage1_results)
  IN  [i \in 1..n |-> [label |-> FormatLabel(labels[i]),
                       response |-> stage1_results[i].response]]

RankingPrompt(user_query, stage1_results) ==
  Prompt("ranking", user_query,
         ResponsesText(Labels(stage1_results), stage1_results), << >>, << >>)

\* A model whose text holds no ranking gets no entry.
Stage2ResultsDropsUnparsed(resp) ==
  LET answered == SelectSeq(NotNone(resp),
                            LAMBDA item : parse_ranking_from_text(GetContent(item[2])) # << >>)
  IN  List([i \in 1..Len(answered) |->
              [model |-> answered[i][1],
               ranking |-> GetContent(answered[i][2]),
               parsed_ranking |-> parse_ranking_from_text(GetContent(answered[i][2]))]])

\* graph.py lines 92-101: one result per response that is not None, in the
\* order of the mapping.
Stage2Results(resp) ==
  LET answered == NotNone(resp)
  IN  List([i \in 1..Len(answered) |->
              [model |-> answered[i][1],
               ranking |-> GetContent(answered[i][2]),
               parsed_ranking |-> parse_ranking_from_text(GetContent(answered[i][2]))]])

\* graph.py lines 103-115: aggregate, build metadata, return the update.
Stage2Update(resp, l2m) ==
  Let(Stage2Results(resp), LAMBDA stage2_results :
  Let(calculate_aggregate_rankings(stage2_results, l2m), LAMBDA aggregate_rankings :
  Let([label_to_model |-> l2m, aggregate_rankings |-> aggregate_rankings], LAMBDA metadata :
    [stage2_results |-> stage2_results, label_to_model |-> l2m, metadata |-> metadata])))

\* ------------------------------------------------------------ stage 3

\* The check is missing: stage 3 always goes on to the chairman.
Stage3InputNeverAbsent(s) == FALSE

\* if not stage1_results (stage3_node)
Stage3InputAbsent(s) == s.stage1_results = << >>

Stage1Text(stage1_results) ==
  [i \in 1..Len(stage1_results) |->
     [model |-> stage1_results[i].model, response |-> stage1_results[i].response]]

\* The parsed ranking is embedded in place of the raw ranking text.
Stage2TextParsed(stage2_results) ==
  [i \in 1..Len(stage2_results) |->
     [model |-> stage2_results[i].model, ranking |-> stage2_results[i].parsed_ranking]]

Stage2Text(stage2_results) ==
  [i \in 1..Len(stage2_results) |->
     [model |-> stage2_results[i].model, ranking |-> stage2_results[i].ranking]]

ChairmanPrompt(user_query, stage1_results, stage2_results) ==
  Prompt("chairman", user_query, << >>,
         Stage1Text(stage1_results), Stage2Text(stage2_results))

\* The sentinel results of stage 3.
NoResponsesResult == [model |-> "error", response |-> <<"No responses to synthesize.">>]
SynthesisFailedResult == [model |-> CHAIRMAN_MODEL, response |-> <<"Error: Synthesis failed.">>]

\* The update stage3_node returns when it has no input.
Stage3SkipUpdate == [stage3_result |-> NoResponsesResult]

\* Stage 3 returns a metadata entry of its own, which replaces stage 2's.
Stage3UpdateWithMetadata(response) ==
  [stage3_result |->
     IF response.is_none THEN SynthesisFailedResult
     ELSE [model |-> CHAIRMAN_MODEL, response |-> GetContent(response)],
   metadata |-> [chairman |-> CHAIRMAN_MODEL]]

\* The chairman's failure is tagged "error", like the no-input sentinel.
Stage3UpdateErrorTag(response) ==
  [stage3_result |->
     IF response.is_none
       THEN [model |-> "error", response |-> <<"Error: Synthesis failed.">>]
       ELSE [model |-> CHAIRMAN_MODEL, response |-> GetContent(response)]]

\* graph.py lines 154-162: the update stage3_node returns after the chairman's call.
Stage3Update(response) ==
  [stage3_result |->
     IF response.is_none THEN SynthesisFailedResult
     ELSE [model |-> CHAIRMAN_MODEL, response |-> GetContent(response)]]

\* ------------------------------------------------------------ actions

Init ==
  /\ council \in {COUNCIL_MODELS(n) : n \in 1..MaxCouncil}
  /\ node = EntryPoint
  /\ phase = "ready"
  /\ state \in {[user_query |-> q] : q \in Queries}
  /\ pending = {}
  /\ responses = << >>
  /\ label_to_model = EmptyDictionary
  /\ invocations = << >>
  /\ resolved = {}
  /\ events = << >>

\* stage1_node up to its await: dispatch the user query to the council.
Stage1Start ==
  /\ node = "stage1" /\ phase = "ready"
  /\ LET messages == Messages(Prompt("query", state.user_query, << >>, << >>, << >>))
     IN  invocations' = invocations \o Dispatched("stage1", council, messages)
  /\ pending' = Range(council)
  /\ responses' = << >>
  /\ phase' = "awaiting"
  /\ events' = Append(events, <<"stage1", "start">>)
  /\ UNCHANGED <<council, node, state, label_to_model, resolved>>

\* One invocation of the current batch resolves, with a result or a failure.
InvocationResolves ==
  /\ phase = "awaiting"
  /\ \E m \in pending : \E r \in Outcomes(node, m) :
       /\ responses' = Append(responses, <<m, r>>)
       /\ pending' = pending \ {m}
       /\ resolved' = resolved \cup {[stage |-> node, model |-> m, response |-> r]}
  /\ UNCHANGED <<council, node, phase, state, label_to_model, invocations, events>>

\* The dispatch is not awaited: the node returns with what has resolved so far.
Stage1ReturnNoAwait ==
  /\ node = "stage1" /\ phase = "awaiting"
  /\ state' = Merge(state, Stage1Update(responses))
  /\ node' = Edge("stage1")
  /\ phase' = "ready"
  /\ responses' = << >>
  /\ events' = Append(events, <<"stage1", "return">>)
  /\ UNCHANGED <<council, pending, label_to_model, invocations, resolved>>

\* stage1_node from its await to its return, and the driver's merge.
Stage1Return ==
  /\ node = "stage1" /\ phase = "awaiting"
  /\ Joined
  /\ state' = Merge(state, Stage1Update(responses))
  /\ node' = Edge("stage1")
  /\ phase' = "ready"
  /\ responses' = << >>
  /\ events' = Append(events, <<"stage1", "return">>)
  /\ UNCHANGED <<council, pending, label_to_model, invocations, resolved>>

\* stage2_node with no stage 1 result: it returns at once.
Stage2Skip ==
  /\ node = "stage2" /\ phase = "ready"
  /\ Stage2InputAbsent(state)
  /\ state' = Merge(state, Stage2SkipUpdate)
  /\ node' = Edge("stage2")
  /\ events' = events \o << <<"stage2", "start">>, <<"stage2", "return">> >>
  /\ UNCHANGED <<council, phase, pending, responses, label_to_model, invocations, resolved>>

\* The ranking prompt goes to the models that answered in Stage 1 only.
Stage2StartRespondentsOnly ==
  /\ node = "stage2" /\ phase = "ready"
  /\ ~Stage2InputAbsent(state)
  /\ label_to_model' = LabelToModel(Labels(state.stage1_results), state.stage1_results)
  /\ LET messages == Messages(RankingPrompt(state.user_query, state.stage1_results))
         respondents == [i \in 1..Len(state.stage1_results) |-> state.stage1_results[i].model]
     IN  /\ invocations' = invocations \o Dispatched("stage2", respondents, messages)
         /\ pending' = Range(respondents)
  /\ responses' = << >>
  /\ phase' = "awaiting"
  /\ events' = Append(events, <<"stage2", "start">>)
  /\ UNCHANGED <<council, node, state, resolved>>

\* stage2_node up to its await: label the results, dispatch the ranking prompt.
Stage2Start ==
  /\ node = "stage2" /\ phase = "ready"
  /\ ~Stage2InputAbsent(state)
  /\ label_to_model' = LabelToModel(Labels(state.stage1_results), state.stage1_results)
  /\ LET messages == Messages(RankingPrompt(state.user_query, state.stage1_results))
     IN  invocations' = invocations \o Dispatched("stage2", council, messages)
  /\ pending' = Range(council)
  /\ responses' = << >>
  /\ phase' = "awaiting"
  /\ events' = Append(events, <<"stage2", "start">>)
  /\ UNCHANGED <<council, node, state, resolved>>

\* stage2_node from its await to its return, and the driver's merge.
Stage2Return ==
  /\ node = "stage2" /\ phase = "awaiting"
  /\ Joined
  /\ state' = Merge(state, Stage2Update(responses, label_to_model))
  /\ node' = Edge("stage2")
  /\ phase' = "ready"
  /\ responses' = << >>
  /\ events' = Append(events, <<"stage2", "return">>)
  /\ UNCHANGED <<council, pending, label_to_model, invocations, resolved>>

\* stage3_node with no stage 1 result: the sentinel, no invocation.
Stage3Skip ==
  /\ node = "stage3" /\ phase = "ready"
  /\ Stage3InputAbsent(state)
  /\ state' = Merge(state, Stage3SkipUpdate)
  /\ node' = Edge("stage3")
  /\ events' = events \o << <<"stage3", "start">>, <<"stage3", "return">> >>
  /\ UNCHANGED <<council, phase, pending, responses, label_to_model, invocations, resolved>>

\* stage3_node up to its await: build the chairman prompt, invoke the chairman.
Stage3Start ==
  /\ node = "stage3" /\ phase = "ready"
  /\ ~Stage3InputAbsent(state)
  /\ LET messages == Messages(ChairmanPrompt(state.user_query, state.stage1_results,
                                             state.stage2_results))
     IN  invocations' = invocations \o Dispatched("stage3", <<CHAIRMAN_MODEL>>, messages)
  /\ pending' = {CHAIRMAN_MODEL}
  /\ responses' = << >>
  /\ phase' = "awaiting"
  /\ events' = Append(events, <<"stage3", "start">>)
  /\ UNCHANGED <<council, node, state, label_to_model, resolved>>

\* The chairman's failure is not handled: reading the content of None raises,
\* and the run aborts in stage 3.
Stage3ReturnRaises ==
  /\ node = "stage3" /\ phase = "awaiting"
  /\ Joined
  /\ ~responses[1][2].is_none
  /\ state' = Merge(state, Stage3Update(responses[1][2]))
  /\ node' = Edge("stage3")
  /\ phase' = "ready"
  /\ responses' = << >>
  /\ events' = Append(events, <<"stage3", "return">>)
  /\ UNCHANGED <<council, pending, label_to_model, invocations, resolved>>

\* stage3_node from its await to its return, and the driver's merge.
Stage3Return ==
  /\ node = "stage3" /\ phase = "awaiting"
  /\ Joined
  /\ state' = Merge(state, Stage3Update(responses[1][2]))
  /\ node' = Edge("stage3")
  /\ phase' = "ready"
  /\ responses' = << >>
  /\ events' = Append(events, <<"stage3", "return">>)
  /\ UNCHANGED <<council, pending, label_to_model, invocations, resolved>>

Next ==
  \/ Stage1Start
  \/ InvocationResolves
  \/ Stage1Return
  \/ Stage2Skip
  \/ Stage2Start
  \/ Stage2Return
  \/ Stage3Skip
  \/ Stage3Start
  \/ Stage3Return

Spec == Init /\ [][Next]_vars

\* ------------------------------------------------------------ properties

\* The keys of a complete CouncilState.
CouncilStateKeys ==
  {"user_query", "stage1_results", "stage2_results", "label_to_model",
   "stage3_result", "metadata"}

\* The models whose invocation in the stage failed, succeeded, resolved.
FailedIn(stage) == {r.model : r \in {x \in resolved : x.stage = stage /\ x.response.is_none}}
SucceededIn(stage) == {r.model : r \in {x \in resolved : x.stage = stage /\ ~x.response.is_none}}
ResolvedIn(stage) == {r.model : r \in {x \in resolved : x.stage = stage}}

\* The invocations a stage issued.
InvocationsOf(stage) == SelectSeq(invocations, LAMBDA inv : inv.stage = stage)

Started(stage) == <<stage, "start">> \in Range(events)
Returned(stage) == <<stage, "return">> \in Range(events)

\* The one order in which the nodes start and return.
StageOrder ==
  << <<"stage1", "start">>, <<"stage1", "return">>,
     <<"stage2", "start">>, <<"stage2", "return">>,
     <<"stage3", "start">>, <<"stage3", "return">> >>

\* C1: in every run the stages execute strictly in the order Stage 1, Stage 2,
\* Stage 3, Done: what has started and returned so far is always a prefix of
\* that one order (so no stage runs twice, is re-entered or starts before the
\* stage before it returned), Done is reached exactly when all three have
\* returned, and a stage starts only on a state holding the update of the
\* stage before it.
C1_StagesInOrder ==
  /\ Len(events) <= Len(StageOrder)
  /\ events = SubSeq(StageOrder, 1, Len(events))
  /\ (node = "END") <=> (events = StageOrder)
  /\ Started("stage2") => "stage1_results" \in DOMAIN state
  /\ Started("stage3") => "stage2_results" \in DOMAIN state

\* A finished run in which invocations failed in stage 1 and in stage 2.
C1_Witness ==
  /\ node = "END"
  /\ events = StageOrder
  /\ FailedIn("stage1") # {} /\ SucceededIn("stage1") # {}
  /\ FailedIn("stage2") # {}

\* What is left of the run: the node starts and returns to come, each
\* weighing more than a whole batch, and the invocations still unresolved.
StepsLeft ==
  (Len(StageOrder) - Len(events)) * (Len(council) + 1) + Cardinality(pending)

\* C2: whatever invocations succeed or fail, the workflow reaches Done with a
\* complete state object and no stage aborts: before Done a step is always
\* possible (a node can start or return, or an invocation is still to
\* resolve), every step brings the run nearer to its end, so that a run whose
\* invocations all resolve ends, and it ends at Done holding every key of the
\* state.
C2_WorkflowCompletes ==
  /\ [](node = "END" \/ ENABLED Next)
  /\ [](StepsLeft >= 0)
  /\ [][StepsLeft' < StepsLeft]_vars
  /\ [](node = "END" => (StepsLeft = 0 /\ DOMAIN state = CouncilStateKeys))

\* A finished run in which the chairman's invocation failed after failures
\* in both batches.
C2_Witness ==
  /\ node = "END"
  /\ DOMAIN state = CouncilStateKeys
  /\ FailedIn("stage1") # {} /\ FailedIn("stage2") # {} /\ FailedIn("stage3") # {}

\* C3: if every council model fails its Stage 1 invocation, Stage 2 and
\* Stage 3 invoke no model at all, Stage 2 yields empty stage2_results and an
\* empty label_to_model, and the final stage3_result is the error sentinel
\* tagged "error".
C3_AllFailedShortCircuits ==
  (Returned("stage1") /\ FailedIn("stage1") = Range(council)) =>
    /\ InvocationsOf("stage2") = << >> /\ InvocationsOf("stage3") = << >>
    /\ Len(invocations) = Len(council)
    /\ Returned("stage2") =>
         /\ state.stage2_results = << >>
         /\ DOMAIN state.label_to_model = {}
    /\ node = "END" =>
         /\ state.stage3_result.model = "error"
         /\ state.stage3_result.response = <<"No responses to synthesize.">>

\* A finished run of a council of two or more in which every Stage 1
\* invocation failed.
C3_Witness ==
  /\ node = "END"
  /\ Len(council) >= 2
  /\ FailedIn("stage1") = Range(council)

\* C4: whichever Stage 1 invocations fail and in whatever order they
\* complete, stage1_results holds exactly one entry, with the model's answer,
\* for each model that succeeded and none for a model that failed.
C4_OneResultPerSuccess ==
  Returned("stage1") =>
    /\ {state.stage1_results[i].model : i \in 1..Len(state.stage1_results)}
         = SucceededIn("stage1")
    /\ Len(state.stage1_results) = Cardinality(SucceededIn("stage1"))
    /\ SucceededIn("stage1") = Range(council) \ FailedIn("stage1")
    /\ \A i \in 1..Len(state.stage1_results) :
         state.stage1_results[i].response = Answer(state.stage1_results[i].model)

\* Stage 1 has returned; the first model of the council failed and a later
\* one, which completed before it or after it, has its entry.
C4_Witness ==
  /\ Returned("stage1")
  /\ Len(council) >= 3
  /\ FailedIn("stage1") = {council[2]}
  /\ Len(state.stage1_results) = 2
  /\ state.stage1_results[1].model = council[3]

\* C5: while any invocation of the batch a stage dispatched is unresolved,
\* the stage produces no result and the workflow does not advance.
C5_FullJoin ==
  [][(phase = "awaiting" /\ ResolvedIn(node) # {m.model : m \in Range(InvocationsOf(node))})
       => (node' = node /\ state' = state /\ events' = events)]_vars

\* Stage 2 is suspended with one invocation of its batch resolved and
\* another unresolved.
C5_Witness ==
  /\ node = "stage2" /\ phase = "awaiting"
  /\ ResolvedIn("stage2") # {}
  /\ ResolvedIn("stage2") # Range(council)


\* C6: when every invocation succeeds, Stage 1 yields as many results as the
\* council has members, and the label map Stage 2 builds has as many entries
\* as Stage 1 has results.
C6_SizesAgree ==
  /\ (Returned("stage1") /\ SucceededIn("stage1") = Range(council)) =>
       Len(state.stage1_results) = Len(council)
  /\ (Returned("stage2") /\ SucceededIn("stage1") = Range(council)) =>
       /\ Cardinality(DOMAIN state.label_to_model) = Len(state.stage1_results)
       /\ Cardinality(DOMAIN state.metadata.label_to_model) = Len(state.stage1_results)

\* A finished run of a council of two or more in which no invocation failed.
C6_Witness ==
  /\ node = "END"
  /\ Len(council) >= 2
  /\ \A r \in resolved : ~r.response.is_none
  /\ Cardinality(DOMAIN state.label_to_model) = Len(council)

\* C7: in every run the label map is a bijection between the Stage 1 results
\* and the labels: every result's model is reached from exactly one label,
\* every label leads to the model of exactly one result, and no two labels
\* lead to the same model.
C7_LabelBijection ==
  Returned("stage2") =>
    LET s1 == state.stage1_results
        l2m == state.label_to_model
    IN  /\ \A i \in 1..Len(s1) :
             Cardinality({k \in DOMAIN l2m : l2m[k] = s1[i].model}) = 1
        /\ \A k \in DOMAIN l2m :
             Cardinality({i \in 1..Len(s1) : s1[i].model = l2m[k]}) = 1
        /\ \A k1, k2 \in DOMAIN l2m : l2m[k1] = l2m[k2] => k1 = k2

\* Stage 2 has returned a map of three labels, after a Stage 1 failure-free
\* batch that completed out of council order.
C7_Witness ==
  /\ Returned("stage2")
  /\ Cardinality(DOMAIN state.label_to_model) = 3
  /\ state.stage1_results[1].model # council[1]

\* C8: from Stage 2's return to the final state, metadata holds either the
\* marker that no results were available, or both the label map Stage 2 built
\* and the aggregate ranking Stage 2 computed; Stage 3 and the merges leave
\* them as Stage 2 wrote them.
C8_MetadataSurface ==
  Returned("stage2") =>
    /\ "metadata" \in DOMAIN state
    /\ \/ /\ "error" \in DOMAIN state.metadata
          /\ state.metadata.error = "No stage 1 results"
          /\ state.stage1_results = << >>
       \/ /\ {"label_to_model", "aggregate_rankings"} \subseteq DOMAIN state.metadata
          /\ state.stage1_results # << >>
          /\ state.metadata.label_to_model = label_to_model
          /\ state.metadata.aggregate_rankings
               = calculate_aggregate_rankings(state.stage2_results, label_to_model)

\* A finished run, chairman included, whose metadata holds a non-empty
\* aggregate ranking.
C8_Witness ==
  /\ node = "END"
  /\ ResolvedIn("stage3") # {}
  /\ "aggregate_rankings" \in DOMAIN state.metadata
  /\ state.metadata.aggregate_rankings # << >>

\* C9: whenever Stage 1 produced a result, Stage 3 issues exactly one
\* invocation, to the chairman, whatever Stage 2 yielded; stage3_result is
\* tagged with the chairman's identifier whether the invocation succeeds or
\* fails, and on failure its response is the sentinel message.
C9_ChairmanInvokedOnce ==
  (Started("stage3") /\ state.stage1_results # << >>) =>
    /\ Len(InvocationsOf("stage3")) = 1
    /\ InvocationsOf("stage3")[1].model = CHAIRMAN_MODEL
    /\ node = "END" =>
         /\ state.stage3_result.model = CHAIRMAN_MODEL
         /\ FailedIn("stage3") # {} =>
              state.stage3_result.response = <<"Error: Synthesis failed.">>
         /\ \A r \in resolved :
              (r.stage = "stage3" /\ ~r.response.is_none) =>
                state.stage3_result.response = GetContent(r.response)

\* A finished run in which every Stage 2 invocation failed and then the
\* chairman's invocation failed.
C9_Witness ==
  /\ node = "END"
  /\ state.stage1_results # << >>
  /\ FailedIn("stage2") = Range(council)
  /\ FailedIn("stage3") = {CHAIRMAN_MODEL}

\* C10: the one prompt sent to the chairman embeds the user question, the
\* model and response of every Stage 1 result, and the model and raw ranking
\* text (as the model returned it, not the parsed ranking) of every Stage 2
\* result; and with council {M1, M2}, chairman M1 and every invocation
\* successful, the run's one stage3_result has model M1.
C10_ChairmanPrompt ==
  /\ Len(InvocationsOf("stage3")) <= 1
  /\ \A inv \in Range(InvocationsOf("stage3")) :
       LET prompt == inv.messages[1].content
       IN  /\ Len(inv.messages) = 1
           /\ prompt.question = state.user_query
           /\ \A i \in 1..Len(state.stage1_results) :
                \E e \in Range(prompt.stage1_text) :
                  /\ e.model = state.stage1_results[i].model
                  /\ e.response = Answer(state.stage1_results[i].model)
           /\ Len(prompt.stage2_text) = Cardinality(SucceededIn("stage2"))
           /\ \A r \in resolved :
                (r.stage = "stage2" /\ ~r.response.is_none) =>
                  \E e \in Range(prompt.stage2_text) :
                    e.model = r.model /\ e.ranking = GetContent(r.response)
  /\ (/\ node = "END"
      /\ council = <<"M1", "M2">>
      /\ \A r \in resolved : ~r.response.is_none)
       => state.stage3_result.model = "M1"

\* A finished run of council {M1, M2} in which no invocation failed, one
\* model returned a ranking list and the other a text without one.
C10_Witness ==
  /\ node = "END"
  /\ council = <<"M1", "M2">>
  /\ \A r \in resolved : ~r.response.is_none
  /\ \E i, j \in 1..Len(state.stage2_results) :
       /\ state.stage2_results[i].parsed_ranking = <<"B", "A">>
       /\ state.stage2_results[j].ranking = <<"no marker here">>
  /\ state.stage3_result = [model |-> "M1", response |-> FinalAnswer]

\* ------------------------------------- stage 2 over a wider set of rankings

\* A ranking of two candidates, the first ahead of the second.
RankedAB == <<"FINAL RANKING:", "1. Response A", "2. Response B">>

\* A text with a ranking line before the marker, a line after it that is no
\* ranking line, a letter listed twice, a second marker and a letter no
\* response carries.
RankedLoosely ==
  <<"1. Response C", "FINAL RANKING:", "1. Response A", "not a ranking line",
    "2. Response A", "FINAL RANKING:", "3. Response Z">>

\* The texts a model may answer to the ranking prompt, more of them.
WiderRankingTexts ==
  RankingTexts \cup
  { RankedAB,
    RankedLoosely,
    <<"FINAL RANKING:", "all responses are equally good">>,
    <<"FINAL RANKING:", "1. Response C", "2. Response A", "3. Response B">> }

\* The orders in which a batch over the models may complete: as dispatched,
\* and the last dispatched first.
CompletionOrders(models) ==
  {models, [i \in 1..Len(models) |-> models[Len(models) + 1 - i]]}

\* The mapping query_models_parallel returns, in completion order.
Batch(order, outcome) == [i \in 1..Len(order) |-> <<order[i], outcome[order[i]]>>]

\* The state of a run suspended in stage2_node's await once every ranking
\* invocation has resolved: Stage 1 completed in order1 with the models of
\* answered answering, Stage 2 completed in order2 with the given outcomes.
AwaitingRankings(models, query, order1, answered, order2, outcome2) ==
  LET outcome1 == [m \in Range(models) |-> IF m \in answered THEN Dict(Answer(m)) ELSE None]
      batch1 == Batch(order1, outcome1)
      batch2 == Batch(order2, outcome2)
      s == Merge([user_query |-> query], Stage1Update(batch1))
  IN  /\ council = models
      /\ node = "stage2"
      /\ phase = "awaiting"
      /\ state = s
      /\ pending = {}
      /\ responses = batch2
      /\ label_to_model = LabelToModel(Labels(s.stage1_results), s.stage1_results)
      /\ invocations =
           Dispatched("stage1", models, Messages(Prompt("query", query, << >>, << >>, << >>)))
           \o Dispatched("stage2", models, Messages(RankingPrompt(query, s.stage1_results)))
      /\ resolved =
           {[stage |-> "stage1", model |-> m, response |-> outcome1[m]] : m \in Range(models)}
           \cup {[stage |-> "stage2", model |-> m, response |-> outcome2[m]] : m \in Range(models)}
      /\ events = SubSeq(StageOrder, 1, 3)

RankingsInit ==
  \E n \in 1..MaxCouncil : \E query \in Queries :
    LET models == COUNCIL_MODELS(n)
    IN  \E order \in CompletionOrders(models) :
          \E answered \in (SUBSET Range(models)) \ {{}} :
            \E outcome2 \in [Range(models) -> {None} \cup {Dict(t) : t \in WiderRankingTexts}] :
              AwaitingRankings(models, query, order, answered, order, outcome2)

RankingsNext == Stage2Return

\* Stage 2 from the join of its batch to its return, over the wider rankings.
RankingsSpec == RankingsInit /\ [][RankingsNext]_vars

\* Place of the model in the aggregate ranking stored in metadata, 0 if the
\* ranking has no entry for it.
PlaceOf(model) ==
  LET ranking == state.metadata.aggregate_rankings
  IN  IF \E i \in 1..Len(ranking) : ranking[i].model = model
        THEN CHOOSE i \in 1..Len(ranking) : ranking[i].model = model
        ELSE 0

\* The Stage 2 results that carry a non-empty parsed ranking.
Ranked == SelectSeq(state.stage2_results, LAMBDA r : r.parsed_ranking # << >>)

\* C11: if exactly one model's ranking is parseable and it is "1. Response A,
\* 2. Response B", and the label map built by Stage 2 maps "Response A" to M1
\* and "Response B" to M2, then the aggregate ranking stored in metadata has
\* an entry for both and places M1 strictly ahead of M2.
C11_FirstRankedAhead ==
  (/\ Returned("stage2")
   /\ Len(Ranked) = 1
   /\ Ranked[1].ranking = RankedAB
   /\ {"Response A", "Response B"} \subseteq DOMAIN state.label_to_model) =>
     LET M1 == state.label_to_model["Response A"]
         M2 == state.label_to_model["Response B"]
     IN  /\ PlaceOf(M1) > 0
         /\ PlaceOf(M1) < PlaceOf(M2)

\* Stage 2 has returned with one parseable ranking, "A then B", given by a
\* model that failed in Stage 1, with three labelled responses of which the
\* first is not the first council model's.
C11_Witness ==
  /\ Returned("stage2")
  /\ Len(Ranked) = 1
  /\ Ranked[1].ranking = RankedAB
  /\ Ranked[1].model \in FailedIn("stage1")
  /\ Len(state.stage2_results) = 3
  /\ state.label_to_model = [k \in {"Response A", "Response B"} |->
                               IF k = "Response A" THEN "M3" ELSE "M2"]
  /\ PlaceOf("M3") = 1 /\ PlaceOf("M2") = 2

\* The orders in which n results can be fed to the aggregator.
FeedOrders(n) == {p \in [1..n -> 1..n] : \A i, j \in 1..n : p[i] = p[j] => i = j}

\* C12: aggregation is independent of input order: feeding the Stage 2
\* results to the aggregator in any other order, with the same label map,
\* yields the aggregate ranking Stage 2 stored, entries and order included.
C12_OrderIndependent ==
  (Returned("stage2") /\ state.stage1_results # << >>) =>
    \A p \in FeedOrders(Len(state.stage2_results)) :
      calculate_aggregate_rankings(
          [i \in 1..Len(state.stage2_results) |-> state.stage2_results[p[i]]],
          state.label_to_model)
        = state.metadata.aggregate_rankings

\* Stage 2 has returned three results whose parsed rankings differ pairwise,
\* the first to complete ranking B first and the last ranking A first.
C12_Witness ==
  /\ Returned("stage2")
  /\ Len(state.stage2_results) = 3
  /\ state.stage2_results[1].parsed_ranking = <<"B", "A">>
  /\ state.stage2_results[2].parsed_ranking = <<"C", "A", "B">>
  /\ state.stage2_results[3].parsed_ranking = <<"A", "B">>
  /\ Len(state.metadata.aggregate_rankings) = 3

\* Every line of the form "<ordinal>. Response <Letter>".
RankingLines ==
  {ToString(o) \o ". Response " \o Alphabet[k] : o \in Ordinals, k \in 1..Len(Alphabet)}

\* The lines of the text after its first marker line; none if it has no marker.
AfterFirstMarker(text) ==
  LET markers == {i \in 1..Len(text) : text[i] = "FINAL RANKING:"}
  IN  IF markers = {} THEN << >>
      ELSE SubSeq(text, (CHOOSE i \in markers : \A j \in markers : i <= j) + 1, Len(text))

\* C13: the parsed ranking recorded with a ranking text is empty when the text
\* has no "FINAL RANKING:" marker; otherwise it holds, in document order, the
\* letter of every line "<ordinal>. Response <Letter>" after the first marker,
\* other lines ignored, a repeated letter or a letter of no response passed
\* through; the text ending in the marker, "1. Response B", "2. Response A"
\* yields B, A.
C13_ParserContract ==
  Returned("stage2") =>
    \A r \in Range(state.stage2_results) :
      LET matching == SelectSeq(AfterFirstMarker(r.ranking), LAMBDA l : l \in RankingLines)
      IN  /\ ("FINAL RANKING:" \notin Range(r.ranking)) => r.parsed_ranking = << >>
          /\ Len(r.parsed_ranking) = Len(matching)
          /\ \A k \in 1..Len(matching) :
               \E o \in Ordinals :
                 matching[k] = ToString(o) \o ". Response " \o r.parsed_ranking[k]
          /\ r.ranking = <<"commentary", "FINAL RANKING:", "1. Response B", "2. Response A">>
               => r.parsed_ranking = <<"B", "A">>
          /\ r.ranking = <<"no marker here">> => r.parsed_ranking = << >>
          /\ r.ranking = RankedLoosely => r.parsed_ranking = <<"A", "A", "Z">>

\* Stage 2 has returned the parse of a text without marker, of the text
\* ending in the marker and two ranking lines, and of the text with a second
\* marker, a repeated letter and a letter of no response.
C13_Witness ==
  /\ Returned("stage2")
  /\ \E r \in Range(state.stage2_results) :
       r.ranking = <<"no marker here">> /\ r.parsed_ranking = << >>
  /\ \E r \in Range(state.stage2_results) :
       /\ r.ranking = <<"commentary", "FINAL RANKING:", "1. Response B", "2. Response A">>
       /\ r.parsed_ranking = <<"B", "A">>
  /\ \E r \in Range(state.stage2_results) :
       r.ranking = RankedLoosely /\ r.parsed_ranking = <<"A", "A", "Z">>

\* The aggregate ranking has exactly one entry for every model of the label
\* map and no other entry, and its scores ascend.
OneEntryPerModelSorted(ranking, map) ==
  /\ {ranking[i].model : i \in 1..Len(ranking)} = {map[k] : k \in DOMAIN map}
  /\ \A i, j \in 1..Len(ranking) : ranking[i].model = ranking[j].model => i = j
  /\ \A i \in 1..(Len(ranking) - 1) : ranking[i].score <= ranking[i + 1].score

\* C14 as stated: whenever Stage 2 ran on Stage 1 results, the aggregate
\* ranking has exactly one entry per model of the label map, sorted best to
\* worst.
C14_OneEntryPerModel ==
  (Returned("stage2") /\ state.stage1_results # << >>) =>
    OneEntryPerModelSorted(state.metadata.aggregate_rankings, state.label_to_model)

\* C14: whenever at least one Stage 2 result carries a non-empty parsed
\* ranking, the aggregate ranking has exactly one entry per model of the
\* label map, the models no ranking mentions included, sorted best to worst
\* by score; when none does, the aggregate ranking is empty.
C14_OneEntryPerModelWhenRanked ==
  (Returned("stage2") /\ state.stage1_results # << >>) =>
    IF Ranked = << >>
      THEN state.metadata.aggregate_rankings = << >>
      ELSE OneEntryPerModelSorted(state.metadata.aggregate_rankings, state.label_to_model)

\* Stage 2 has returned with three labelled responses and rankings that
\* mention only A and B: the model of C has the last entry.
C14_Witness ==
  /\ Returned("stage2")
  /\ Cardinality(DOMAIN state.label_to_model) = 3
  /\ Ranked # << >>
  /\ \A i \in 1..Len(Ranked) : "C" \notin Range(Ranked[i].parsed_ranking)
  /\ Len(state.metadata.aggregate_rankings) = 3
  /\ state.metadata.aggregate_rankings[3].model = state.label_to_model["Response C"]

\* The text holds no ranking: no marker, or no ranking line after the first.
Unparseable(text) == \A l \in Range(AfterFirstMarker(text)) : l \notin RankingLines

\* C15: when Stage 1 had results, Stage 2 never reports an error; every model
\* that answered the ranking prompt is kept in stage2_results with its raw
\* text, with an empty parsed ranking when the text holds no ranking; the
\* stored aggregate is the aggregate of the results with a non-empty parsed
\* ranking alone; and when no model produced a parseable ranking (unparseable
\* texts or failed invocations only) the stored aggregate is empty, next to
\* the non-empty label map.
C15_NothingParseable ==
  (Returned("stage2") /\ state.stage1_results # << >>) =>
    /\ DOMAIN state.metadata = {"label_to_model", "aggregate_rankings"}
    /\ state.metadata.label_to_model # EmptyDictionary
    /\ \A r \in resolved :
         (r.stage = "stage2" /\ ~r.response.is_none) =>
           \E e \in Range(state.stage2_results) :
             /\ e.model = r.model
             /\ e.ranking = GetContent(r.response)
             /\ Unparseable(e.ranking) => e.parsed_ranking = << >>
    /\ state.metadata.aggregate_rankings =
         calculate_aggregate_rankings(Ranked, state.metadata.label_to_model)
    /\ (\A r \in resolved :
          r.stage = "stage2" => (r.response.is_none \/ Unparseable(GetContent(r.response))))
         => state.metadata.aggregate_rankings = << >>

\* Stage 2 has returned after one ranking invocation failed, one answered a
\* text without marker and one a marker followed by no ranking line; the two
\* texts are kept, the stored aggregate is empty, the label map is not.
C15_Witness ==
  /\ Returned("stage2")
  /\ state.stage1_results # << >>
  /\ Cardinality(FailedIn("stage2")) = 1
  /\ Len(state.stage2_results) = 2
  /\ \E e \in Range(state.stage2_results) : "FINAL RANKING:" \in Range(e.ranking)
  /\ \E e \in Range(state.stage2_results) : e.ranking = <<"no marker here">>
  /\ Ranked = << >>
  /\ state.metadata.aggregate_rankings = << >>
  /\ state.metadata.label_to_model # EmptyDictionary

\* Index of the model's Stage 1 result, which is the index of its label.
LabelIndex(model) ==
  CHOOSE i \in 1..Len(state.stage1_results) : state.stage1_results[i].model = model

\* C16: two entries of the aggregate ranking with equal scores stand in the
\* order of their models' labels, the earlier letter first; and the ranking
\* is the same when the Stage 2 results are fed in the opposite order, so
\* that rankings and labels are first met in another order.
C16_TiesByLabelOrder ==
  (Returned("stage2") /\ state.stage1_results # << >>) =>
    LET ranking == state.metadata.aggregate_rankings
        n == Len(state.stage2_results)
    IN  /\ \A i, j \in 1..Len(ranking) :
             (i < j /\ ranking[i].score = ranking[j].score) =>
               LabelIndex(ranking[i].model) < LabelIndex(ranking[j].model)
        /\ calculate_aggregate_rankings(
               [i \in 1..n |-> state.stage2_results[n + 1 - i]], state.label_to_model)
             = ranking

\* Stage 2 has returned two opposite rankings of two responses, the first one
\* met naming B first and the last council model labelled A: the scores are
\* level and the model labelled A stands first.
C16_Witness ==
  /\ Returned("stage2")
  /\ state.label_to_model = [k \in {"Response A", "Response B"} |->
                               IF k = "Response A" THEN "M3" ELSE "M1"]
  /\ Len(Ranked) = 2
  /\ Ranked[1].parsed_ranking = <<"B", "A">>
  /\ Ranked[2].parsed_ranking = <<"A", "B">>
  /\ Len(state.metadata.aggregate_rankings) = 2
  /\ state.metadata.aggregate_rankings[1].score = state.metadata.aggregate_rankings[2].score
  /\ state.metadata.aggregate_rankings[1].model = "M3"
  /\ state.metadata.aggregate_rankings[2].model = "M1"

\* C17: when Stage 1 produced a result, Stage 2 issues one invocation per
\* model of the full council, all with the same ranking prompt, the models
\* that failed in Stage 1 included; and such a model, if it answers, has its
\* entry in stage2_results although no label maps to it.
C17_FullCouncilRanks ==
  (Started("stage2") /\ state.stage1_results # << >>) =>
    LET issued == InvocationsOf("stage2")
    IN  /\ [i \in 1..Len(issued) |-> issued[i].model] = council
        /\ \A i \in 1..Len(issued) : issued[i].messages = issued[1].messages
        /\ FailedIn("stage1") \subseteq {issued[i].model : i \in 1..Len(issued)}
        /\ Returned("stage2") =>
             \A m \in FailedIn("stage1") \cap SucceededIn("stage2") :
               /\ \E e \in Range(state.stage2_results) : e.model = m
               /\ \A k \in DOMAIN state.label_to_model : state.label_to_model[k] # m

\* Stage 2 has returned and a model that failed in Stage 1 answered the
\* ranking prompt, while a model that answered in Stage 1 failed to rank.
C17_Witness ==
  /\ Returned("stage2")
  /\ state.stage1_results # << >>
  /\ FailedIn("stage1") \cap SucceededIn("stage2") # {}
  /\ SucceededIn("stage1") \cap FailedIn("stage2") # {}
  /\ \E e \in Range(state.stage2_results) : e.model \in FailedIn("stage1")

\* The fields of the CouncilState a node returns.
Writes(stage) ==
  CASE stage = "stage1" -> {"stage1_results"}
    [] stage = "stage2" -> {"stage2_results", "label_to_model", "metadata"}
    [] stage = "stage3" -> {"stage3_result"}
    [] OTHER -> {}

\* C18: every step leaves each field of the CouncilState as it was unless the
\* field is one of those of the stage the step belongs to (Stage 1:
\* stage1_results; Stage 2: stage2_results, label_to_model, metadata; Stage 3:
\* stage3_result); no field is ever removed, user_query never changes, and
\* stage1_results never changes once Stage 1 has returned.
C18_Frame ==
  [][/\ DOMAIN state \subseteq DOMAIN state'
     /\ \A k \in DOMAIN state' :
          (k \notin DOMAIN state \/ state'[k] # state[k]) => k \in Writes(node)
     /\ state'.user_query = state.user_query
     /\ Returned("stage1") => state'.stage1_results = state.stage1_results]_vars

\* A finished run in which every stage invoked models and wrote its fields.
C18_Witness ==
  /\ node = "END"
  /\ DOMAIN state = CouncilStateKeys
  /\ state.stage1_results # << >>
  /\ state.stage2_results # << >>
  /\ state.stage3_result.model = CHAIRMAN_MODEL
  /\ state.user_query = "Q"

\* C19: in a run with a council of N models no stage invokes a model twice;
\* Stage 1 issues N invocations; and a finished run has issued N invocations
\* in all when Stage 1 yielded no result, and otherwise 2N + 1: N in Stage 1,
\* N in Stage 2 and one in Stage 3.
C19_InvocationCount ==
  LET N == Len(council)
      count(stage) == Len(InvocationsOf(stage))
  IN  /\ \A stage \in {"stage1", "stage2", "stage3"} :
           \A i, j \in 1..count(stage) :
             InvocationsOf(stage)[i].model = InvocationsOf(stage)[j].model => i = j
      /\ Started("stage1") => count("stage1") = N
      /\ node = "END" =>
           IF state.stage1_results = << >>
             THEN count("stage2") = 0 /\ count("stage3") = 0 /\ Len(invocations) = N
             ELSE /\ count("stage2") = N /\ count("stage3") = 1
                  /\ Len(invocations) = 2 * N + 1

\* A finished run of a council of three with seven invocations, in which one
\* model answered in Stage 1 and every Stage 2 invocation failed.
C19_Witness ==
  /\ node = "END"
  /\ Len(council) = 3
  /\ Len(invocations) = 7
  /\ FailedIn("stage2") = Range(council)
  /\ Cardinality(SucceededIn("stage1")) = 1

\* C20: in every final state the four markers of a degraded run go together:
\* stage1_results is empty, metadata carries "error", label_to_model is empty
\* and stage3_result is tagged "error", all of them or none; and when
\* stage1_results is not empty the label_to_model field equals the label map
\* held in metadata.
C20_MarkersAgree ==
  node = "END" =>
    LET degraded == state.stage1_results = << >>
    IN  /\ degraded <=> "error" \in DOMAIN state.metadata
        /\ degraded <=> state.label_to_model = EmptyDictionary
        /\ degraded <=> state.stage3_result.model = "error"
        /\ ~degraded =>
             /\ "label_to_model" \in DOMAIN state.metadata
             /\ state.label_to_model = state.metadata.label_to_model

\* A finished run of a council of three in which a single model answered in
\* Stage 1 and the chairman's invocation failed: one label, no marker.
C20_Witness ==
  /\ node = "END"
  /\ Len(council) = 3
  /\ Len(state.stage1_results) = 1
  /\ DOMAIN state.label_to_model = {"Response A"}
  /\ state.metadata.label_to_model = state.label_to_model
  /\ "error" \notin DOMAIN state.metadata
  /\ state.stage3_result = SynthesisFailedResult

\* A finished run in which no model answered in Stage 1: all four markers.
C20_WitnessDegraded ==
  /\ node = "END"
  /\ state.stage1_results = << >>
  /\ state.metadata = [error |-> "No stage 1 results"]
  /\ state.label_to_model = EmptyDictionary
  /\ state.stage3_result = NoResponsesResult

====
